---- MODULE Spec2Model ----
(***************************************************************************)
(* Model of the file-based configuration source of the service proxy,      *)
(* pkg/proxy/config/file.go: ConfigSourceFile.Run polls a JSON file,       *)
(* converts it into []api.Service and []api.Endpoints, and sends a SET     *)
(* update on the service channel and on the endpoints channel whenever the *)
(* converted list is not reflect.DeepEqual to the one sent last.           *)
(*                                                                         *)
(* One step of the model is the code of Run from one suspension point to   *)
(* the next.  The suspension points are the two channel sends (lines 103,  *)
(* 108) and time.Sleep (line 112); a `continue` (lines 80, 84, 91) goes    *)
(* straight back to ioutil.ReadFile at the top of the loop.                *)
(***************************************************************************)
EXTENDS Naturals, Sequences, FiniteSets

\* ------------------------------------------------------------------ bounds
\* Largest number of entries of the "Services" array of a file.
MaxServices == 2

\* ------------------------------------------------------- file contents
\* The "Name" member of a JSON service object: absent, or a string.
JSONNames ==
  { [present |-> FALSE, val |-> ""],
    [present |-> TRUE, val |-> "a"] }

\* The "Port" and "Endpoints" members of a JSON service object: a service
\* as first written, with another port, and with an endpoint added.
JSONBackends ==
  { [Port |-> 1, Endpoints |-> <<>>],
    [Port |-> 2, Endpoints |-> <<>>],
    [Port |-> 1, Endpoints |-> <<"x">>] }

\* One element of the "Services" array as it is written in the file.
JSONService ==
  { [Name |-> n, Port |-> b.Port, Endpoints |-> b.Endpoints] :
      n \in JSONNames, b \in JSONBackends }

\* The "Services" arrays a file can hold.
JSONDocs == UNION { [1..n -> JSONService] : n \in 0..MaxServices }

\* What ioutil.ReadFile can return: the bytes of a file.  kind "empty" is
\* a file of length 0, "truncated" a file that is no JSON value, "object"
\* the JSON object {} with no "Services" member, and "services" an object
\* whose "Services" member is the array doc.
EmptyFile == [kind |-> "empty", doc |-> <<>>]
TruncatedFile == [kind |-> "truncated", doc |-> <<>>]
ObjectFile == [kind |-> "object", doc |-> <<>>]
JSONFile(d) == [kind |-> "services", doc |-> d]
Files == {EmptyFile, TruncatedFile, ObjectFile} \cup { JSONFile(d) : d \in JSONDocs }

\* A Go slice: nil, or a (possibly empty) sequence of elements.
NilSlice == [nil |-> TRUE, elems |-> <<>>]
Slice(s) == [nil |-> FALSE, elems |-> s]

\* A []byte: nil before the first assignment, the bytes of a file after.
NilBytes == [nil |-> TRUE, file |-> EmptyFile]
Bytes(f) == [nil |-> FALSE, file |-> f]

\* len() of a []byte: 0 for nil and for the bytes of an empty file.
BytesLen(b) == IF b.nil \/ b.file.kind = "empty" THEN 0 ELSE 1

\* BytesEqual gone wrong: only the lengths are compared.
BytesEqualLengths(a, b) == BytesLen(a) = BytesLen(b)

\* bytes.Equal(a, b): a nil slice equals an empty one.
BytesEqual(a, b) ==
  \/ BytesLen(a) = 0 /\ BytesLen(b) = 0
  \/ BytesLen(a) # 0 /\ BytesLen(b) # 0 /\ a.file = b.file

\* json.Unmarshal(data, config): err is TRUE for bytes that are no JSON
\* value.  Otherwise every element of "Services" is decoded into a
\* ServiceJSON, an absent member leaving the zero value of its field, and
\* config.Services stays nil when the object has no "Services" member.
UnmarshalName(n) == IF n.present THEN n.val ELSE ""
Unmarshal(data) ==
  IF data.kind \in {"empty", "truncated"}
    THEN [err |-> TRUE, Services |-> NilSlice]
    ELSE IF data.kind = "object"
      THEN [err |-> FALSE, Services |-> NilSlice]
      ELSE [err |-> FALSE,
            Services |-> Slice([i \in 1..Len(data.doc) |->
                                  [Name |-> UnmarshalName(data.doc[i].Name),
                                   Port |-> data.doc[i].Port,
                                   Endpoints |-> data.doc[i].Endpoints]])]

\* newServices and newEndpoints of Run: made with make(), so never nil.
NewServices(config) ==
  Slice([i \in 1..Len(config.Services.elems) |->
           [ID |-> config.Services.elems[i].Name,
            Port |-> config.Services.elems[i].Port]])
\* NewEndpoints gone wrong: a service without endpoints gets no entry.
NewEndpointsSkipsEmpty(config) ==
  Slice(SelectSeq([i \in 1..Len(config.Services.elems) |->
                     [Name |-> config.Services.elems[i].Name,
                      Endpoints |-> config.Services.elems[i].Endpoints]],
                  LAMBDA e : e.Endpoints # <<>>))

NewEndpoints(config) ==
  Slice([i \in 1..Len(config.Services.elems) |->
           [Name |-> config.Services.elems[i].Name,
            Endpoints |-> config.Services.elems[i].Endpoints]])

\* DeepEqual gone wrong: only the lengths are compared.
DeepEqualLengths(x, y) ==
  /\ x.nil = y.nil
  /\ Len(x.elems) = Len(y.elems)

\* DeepEqual gone wrong: a nil slice is taken to equal an empty one.
DeepEqualNilIsEmpty(x, y) ==
  /\ Len(x.elems) = Len(y.elems)
  /\ \A i \in 1..Len(x.elems) : x.elems[i] = y.elems[i]

\* DeepEqual gone wrong: the slices are compared by identity, and a list
\* that was just made is never the one kept from an earlier cycle.
DeepEqualIdentity(x, y) == FALSE

\* reflect.DeepEqual on two slices: both nil or both not, the same
\* length, and equal elements at every index.
DeepEqual(x, y) ==
  /\ x.nil = y.nil
  /\ Len(x.elems) = Len(y.elems)
  /\ \A i \in 1..Len(x.elems) : x.elems[i] = y.elems[i]

\* ServiceUpdate gone wrong: only the first service is put in the update.
ServiceUpdateFirstOnly(services) ==
  [Op |-> "SET",
   Services |-> Slice(SubSeq(services.elems, 1, IF Len(services.elems) > 1 THEN 1 ELSE Len(services.elems)))]

ServiceUpdate(services) == [Op |-> "SET", Services |-> services]
EndpointsUpdate(endpoints) == [Op |-> "SET", Endpoints |-> endpoints]

\* The channels are the ones NewConfigSourceFile is given.  A channel is the
\* sequence of the updates sent on it and not yet received; the channels
\* have no buffer, so that a send returns when a consumer has received.
ChannelCap == 0

\* SendBlocked gone wrong: a send that gives up waiting for a consumer.
SendNeverBlocks(channel) == FALSE

\* ch <- update, after the update is put on the channel: Run stays in the
\* send statement while the channel holds more than its buffer does.
SendBlocked(channel) == Len(channel) > ChannelCap

\* ------------------------------------------------------------------ state
VARIABLES
  pc,               \* where Run is: "read", "sendServices", "sendEndpoints", "sleep"
  lastData,         \* Run's lastData
  lastServices,     \* Run's lastServices
  lastEndpoints,    \* Run's lastEndpoints
  newServices,      \* Run's newServices while a cycle is dispatching
  newEndpoints,     \* Run's newEndpoints while a cycle is dispatching
  serviceChannel,   \* s.serviceChannel: the updates sent and not yet received
  endpointsChannel, \* s.endpointsChannel: the updates sent and not yet received
  \* observations of the run, none of them read by Run
  outcome,          \* how the latest read went: "none" before the first read and after a sleep
  waited,           \* time.Sleep has returned since the latest read
  delivered,        \* the updates the consumers received in the current cycle, in order
  prevServices,     \* lastServices when the current cycle read the file
  prevEndpoints,    \* lastEndpoints when the current cycle read the file
  accepted,         \* the doc of the latest file that parsed
  base,             \* accepted when the current cycle read the file
  invalidSince,     \* a file failed to parse after the latest one that parsed
  recovering,       \* the current cycle parsed a file and invalidSince held when it read
  lastRead,         \* what the latest ioutil.ReadFile that succeeded returned
  identical,        \* the current cycle read the very bytes the read before it returned
  lastSent,         \* per family, the payload of the latest update a consumer received
  \* the same loop without the comparison of lines 83-85, fed the same reads
  altServices,      \* its lastServices
  altEndpoints,     \* its lastEndpoints
  altDue            \* the updates it sends in the current cycle, in order

\* The variables of Run and of what is observed of it.
proxyVars == <<pc, lastData, lastServices, lastEndpoints, newServices, newEndpoints,
               serviceChannel, endpointsChannel, outcome, waited, delivered,
               prevServices, prevEndpoints, accepted, base, invalidSince, recovering,
               lastRead, identical, lastSent, altServices, altEndpoints, altDue>>

\* ------------------------------------------------- kubectl resource helpers
VARIABLES
  namespace,        \* CompareNamespaceFromFile: the namespace of the input file
  defaultNamespace, \* CompareNamespaceFromFile: what GetKubeNamespace(cmd) returns
  compared,         \* CompareNamespaceFromFile: "unset" before the call, then "nil" or "error"
  listing,          \* ResourceSelector.Delete: what r.Get returns
  deletePc,         \* ResourceSelector.Delete: "idle", "get", "range", "done"
  deleteIdx,        \* ResourceSelector.Delete: the index of the range loop
  attempted,        \* the names RESTHelper.Delete was called with, in order
  printed,          \* the names written to out, in order
  logged,           \* the names glog.Errorf reported as not deleted, in order
  deleteResult      \* ResourceSelector.Delete: "unset" before it returns, then "nil" or "error"

cmdVars == <<namespace, defaultNamespace, compared, listing, deletePc, deleteIdx,
             attempted, printed, logged, deleteResult>>

vars == <<proxyVars, cmdVars>>

NoFile == [some |-> FALSE, file |-> EmptyFile]
SomeFile(f) == [some |-> TRUE, file |-> f]
NoDoc == [some |-> FALSE, doc |-> <<>>]
SomeDoc(d) == [some |-> TRUE, doc |-> d]

\* Run before its first read.
ProxyInit ==
  /\ pc = "read"
  /\ lastData = NilBytes
  /\ lastServices = NilSlice
  /\ lastEndpoints = NilSlice
  /\ newServices = NilSlice
  /\ newEndpoints = NilSlice
  /\ serviceChannel = <<>>
  /\ endpointsChannel = <<>>
  /\ outcome = "none"
  /\ waited = FALSE
  /\ delivered = <<>>
  /\ prevServices = NilSlice
  /\ prevEndpoints = NilSlice
  /\ accepted = NoDoc
  /\ base = NoDoc
  /\ invalidSince = FALSE
  /\ recovering = FALSE
  /\ lastRead = NoFile
  /\ identical = FALSE
  /\ lastSent = [services |-> NilSlice, endpoints |-> NilSlice]
  /\ altServices = NilSlice
  /\ altEndpoints = NilSlice
  /\ altDue = <<>>

\* No kubectl helper is called.
CmdIdle ==
  /\ namespace = ""
  /\ defaultNamespace = ""
  /\ compared = "unset"
  /\ listing = [kind |-> "error", items |-> <<>>]
  /\ deletePc = "idle"
  /\ deleteIdx = 0
  /\ attempted = <<>>
  /\ printed = <<>>
  /\ logged = <<>>
  /\ deleteResult = "unset"

Init == ProxyInit /\ CmdIdle

\* What every read records about the cycle it starts.
StartCycle ==
  /\ waited' = FALSE
  /\ delivered' = <<>>
  /\ prevServices' = lastServices
  /\ prevEndpoints' = lastEndpoints
  /\ base' = accepted
  /\ UNCHANGED <<lastSent, cmdVars>>

\* One cycle of the loop without the comparison of lines 83-85 on the
\* bytes data: lines 88-110, every send received.
AltCycle(data) ==
  IF Unmarshal(data).err
    THEN /\ altDue' = <<>>
         /\ UNCHANGED <<altServices, altEndpoints>>
    ELSE /\ altDue' =
              (IF ~DeepEqual(altServices, NewServices(Unmarshal(data)))
                 THEN << [family |-> "services", Op |-> "SET",
                          payload |-> NewServices(Unmarshal(data))] >>
                 ELSE <<>>)
              \o (IF ~DeepEqual(altEndpoints, NewEndpoints(Unmarshal(data)))
                    THEN << [family |-> "endpoints", Op |-> "SET",
                             payload |-> NewEndpoints(Unmarshal(data))] >>
                    ELSE <<>>)
         /\ altServices' = NewServices(Unmarshal(data))
         /\ altEndpoints' = NewEndpoints(Unmarshal(data))

\* What a read that returns data records.
ReadOK(data) ==
  /\ StartCycle
  /\ lastRead' = SomeFile(data)
  /\ identical' = (lastRead = SomeFile(data))
  /\ AltCycle(data)

\* ReadError gone wrong: Run returns when the file cannot be read.
ReadErrorReturns ==
  /\ pc = "read"
  /\ StartCycle
  /\ UNCHANGED lastRead
  /\ identical' = FALSE
  /\ altDue' = <<>>
  /\ UNCHANGED <<altServices, altEndpoints>>
  /\ outcome' = "ReadError"
  /\ recovering' = FALSE
  /\ pc' = "returned"
  /\ UNCHANGED <<lastData, lastServices, lastEndpoints, newServices,
                 newEndpoints, serviceChannel, endpointsChannel, accepted,
                 invalidSince>>

\* ioutil.ReadFile fails: logged, continue.
ReadError ==
  /\ pc = "read"
  /\ StartCycle
  /\ UNCHANGED lastRead
  /\ identical' = FALSE
  /\ altDue' = <<>>
  /\ UNCHANGED <<altServices, altEndpoints>>
  /\ outcome' = "ReadError"
  /\ recovering' = FALSE
  /\ UNCHANGED <<pc, lastData, lastServices, lastEndpoints, newServices,
                 newEndpoints, serviceChannel, endpointsChannel, accepted,
                 invalidSince>>

\* ReadUnchanged gone wrong: the lists sent last are sent again on every
\* poll, also when the bytes did not change.
ReadUnchangedResend(data) ==
  /\ pc = "read"
  /\ BytesEqual(lastData, Bytes(data))
  /\ ReadOK(data)
  /\ outcome' = "Unchanged"
  /\ recovering' = FALSE
  /\ newServices' = lastServices
  /\ newEndpoints' = lastEndpoints
  /\ serviceChannel' = Append(serviceChannel, [Op |-> "SET", Services |-> lastServices])
  /\ pc' = "sendServices"
  /\ UNCHANGED <<lastData, lastServices, lastEndpoints, endpointsChannel,
                 accepted, invalidSince>>

\* The bytes read equal lastData: continue.
ReadUnchanged(data) ==
  /\ pc = "read"
  /\ BytesEqual(lastData, Bytes(data))
  /\ ReadOK(data)
  /\ outcome' = "Unchanged"
  /\ recovering' = FALSE
  /\ UNCHANGED <<pc, lastData, lastServices, lastEndpoints, newServices,
                 newEndpoints, serviceChannel, endpointsChannel, accepted,
                 invalidSince>>

\* ParseError gone wrong: the endpoints kept for the next comparison are
\* dropped when a file does not parse.
ParseErrorDropsEndpoints(data) ==
  /\ pc = "read"
  /\ ~BytesEqual(lastData, Bytes(data))
  /\ Unmarshal(data).err
  /\ ReadOK(data)
  /\ lastData' = Bytes(data)
  /\ lastEndpoints' = NilSlice
  /\ outcome' = "ParseError"
  /\ invalidSince' = TRUE
  /\ recovering' = FALSE
  /\ UNCHANGED <<pc, lastServices, newServices, newEndpoints,
                 serviceChannel, endpointsChannel, accepted>>

\* ParseError gone wrong: the services kept for the next comparison are
\* dropped when a file does not parse.
ParseErrorDropsServices(data) ==
  /\ pc = "read"
  /\ ~BytesEqual(lastData, Bytes(data))
  /\ Unmarshal(data).err
  /\ ReadOK(data)
  /\ lastData' = Bytes(data)
  /\ lastServices' = NilSlice
  /\ outcome' = "ParseError"
  /\ invalidSince' = TRUE
  /\ recovering' = FALSE
  /\ UNCHANGED <<pc, lastEndpoints, newServices, newEndpoints,
                 serviceChannel, endpointsChannel, accepted>>

\* New bytes that json.Unmarshal rejects: lastData is set, logged, continue.
ParseError(data) ==
  /\ pc = "read"
  /\ ~BytesEqual(lastData, Bytes(data))
  /\ Unmarshal(data).err
  /\ ReadOK(data)
  /\ lastData' = Bytes(data)
  /\ outcome' = "ParseError"
  /\ invalidSince' = TRUE
  /\ recovering' = FALSE
  /\ UNCHANGED <<pc, lastServices, lastEndpoints, newServices, newEndpoints,
                 serviceChannel, endpointsChannel, accepted>>

\* DispatchEndpoints gone wrong: the endpoints are sent in every cycle
\* that parsed, whether they changed or not.
DispatchEndpointsAlways(ne) ==
  /\ endpointsChannel' = Append(endpointsChannel, EndpointsUpdate(ne))
  /\ pc' = "sendEndpoints"

\* The second comparison of a cycle, on reaching line 106 with the
\* endpoints ne: send on the endpoints channel, or go to sleep.
DispatchEndpoints(ne) ==
  IF ~DeepEqual(lastEndpoints, ne)
    THEN /\ endpointsChannel' = Append(endpointsChannel, EndpointsUpdate(ne))
         /\ pc' = "sendEndpoints"
    ELSE /\ endpointsChannel' = endpointsChannel
         /\ pc' = "sleep"

\* Parsed gone wrong: the two sends are started together, neither waiting
\* for the other.
ParsedSendsTogether(data) ==
  /\ pc = "read"
  /\ ~BytesEqual(lastData, Bytes(data))
  /\ ~Unmarshal(data).err
  /\ ReadOK(data)
  /\ lastData' = Bytes(data)
  /\ outcome' = "Parsed"
  /\ accepted' = SomeDoc(data.doc)
  /\ invalidSince' = FALSE
  /\ recovering' = invalidSince
  /\ newServices' = NewServices(Unmarshal(data))
  /\ newEndpoints' = NewEndpoints(Unmarshal(data))
  /\ serviceChannel' =
       IF ~DeepEqual(lastServices, NewServices(Unmarshal(data)))
         THEN Append(serviceChannel, ServiceUpdate(NewServices(Unmarshal(data))))
         ELSE serviceChannel
  /\ endpointsChannel' =
       IF ~DeepEqual(lastEndpoints, NewEndpoints(Unmarshal(data)))
         THEN Append(endpointsChannel, EndpointsUpdate(NewEndpoints(Unmarshal(data))))
         ELSE endpointsChannel
  /\ pc' = "sendServices"
  /\ UNCHANGED <<lastServices, lastEndpoints>>

\* New bytes that parse: the lists are built and compared; Run blocks in
\* the first send that is due, or reaches time.Sleep when none is.
Parsed(data) ==
  /\ pc = "read"
  /\ ~BytesEqual(lastData, Bytes(data))
  /\ ~Unmarshal(data).err
  /\ ReadOK(data)
  /\ lastData' = Bytes(data)
  /\ outcome' = "Parsed"
  /\ accepted' = SomeDoc(data.doc)
  /\ invalidSince' = FALSE
  /\ recovering' = invalidSince
  /\ newServices' = NewServices(Unmarshal(data))
  /\ newEndpoints' = NewEndpoints(Unmarshal(data))
  /\ IF ~DeepEqual(lastServices, NewServices(Unmarshal(data)))
       THEN /\ serviceChannel' = Append(serviceChannel, ServiceUpdate(NewServices(Unmarshal(data))))
            /\ pc' = "sendServices"
            /\ endpointsChannel' = endpointsChannel
       ELSE /\ serviceChannel' = serviceChannel
            /\ DispatchEndpoints(NewEndpoints(Unmarshal(data)))
  /\ UNCHANGED <<lastServices, lastEndpoints>>

\* The send of line 103 has returned: lastServices is replaced and Run goes
\* on to the comparison of line 106.
SentServices ==
  /\ pc = "sendServices"
  /\ ~SendBlocked(serviceChannel)
  /\ lastServices' = newServices
  /\ DispatchEndpoints(newEndpoints)
  /\ UNCHANGED <<lastData, lastEndpoints, newServices, newEndpoints,
                 serviceChannel, outcome, waited, delivered, prevServices,
                 prevEndpoints, accepted, base, invalidSince, recovering,
                 lastRead, identical, lastSent, altServices, altEndpoints,
                 altDue, cmdVars>>

\* SentEndpoints gone wrong: lastEndpoints is not replaced after the send.
SentEndpointsKeepsOld ==
  /\ pc = "sendEndpoints"
  /\ ~SendBlocked(endpointsChannel)
  /\ pc' = "sleep"
  /\ UNCHANGED <<lastData, lastServices, lastEndpoints, newServices, newEndpoints,
                 serviceChannel, endpointsChannel, outcome, waited, delivered,
                 prevServices, prevEndpoints, accepted, base, invalidSince,
                 recovering, lastRead, identical, lastSent, altServices,
                 altEndpoints, altDue, cmdVars>>

\* The send of line 108 has returned: lastEndpoints is replaced and Run
\* reaches time.Sleep.
SentEndpoints ==
  /\ pc = "sendEndpoints"
  /\ ~SendBlocked(endpointsChannel)
  /\ lastEndpoints' = newEndpoints
  /\ pc' = "sleep"
  /\ UNCHANGED <<lastData, lastServices, newServices, newEndpoints,
                 serviceChannel, endpointsChannel, outcome, waited, delivered,
                 prevServices, prevEndpoints, accepted, base, invalidSince,
                 recovering, lastRead, identical, lastSent, altServices,
                 altEndpoints, altDue, cmdVars>>

\* The consumer of the service channel receives an update.
ReceiveServiceUpdate ==
  /\ serviceChannel # <<>>
  /\ delivered' = Append(delivered, [family |-> "services", Op |-> Head(serviceChannel).Op,
                                     payload |-> Head(serviceChannel).Services])
  /\ serviceChannel' = Tail(serviceChannel)
  /\ lastSent' = [lastSent EXCEPT !.services = Head(serviceChannel).Services]
  /\ UNCHANGED <<pc, lastData, lastServices, lastEndpoints, newServices,
                 newEndpoints, endpointsChannel, outcome, waited, prevServices,
                 prevEndpoints, accepted, base, invalidSince, recovering,
                 lastRead, identical, altServices, altEndpoints, altDue,
                 cmdVars>>

\* The consumer of the endpoints channel receives an update.
ReceiveEndpointsUpdate ==
  /\ endpointsChannel # <<>>
  /\ delivered' = Append(delivered, [family |-> "endpoints", Op |-> Head(endpointsChannel).Op,
                                     payload |-> Head(endpointsChannel).Endpoints])
  /\ endpointsChannel' = Tail(endpointsChannel)
  /\ lastSent' = [lastSent EXCEPT !.endpoints = Head(endpointsChannel).Endpoints]
  /\ UNCHANGED <<pc, lastData, lastServices, lastEndpoints, newServices,
                 newEndpoints, serviceChannel, outcome, waited, prevServices,
                 prevEndpoints, accepted, base, invalidSince, recovering,
                 lastRead, identical, altServices, altEndpoints, altDue,
                 cmdVars>>

\* time.Sleep(5 * time.Second) returns; the locals of the iteration die.
Sleep ==
  /\ pc = "sleep"
  /\ pc' = "read"
  /\ waited' = TRUE
  /\ outcome' = "none"
  /\ newServices' = NilSlice
  /\ newEndpoints' = NilSlice
  /\ delivered' = <<>>
  /\ prevServices' = NilSlice
  /\ prevEndpoints' = NilSlice
  /\ base' = NoDoc
  /\ recovering' = FALSE
  /\ identical' = FALSE
  /\ altDue' = <<>>
  /\ UNCHANGED <<lastData, lastServices, lastEndpoints, serviceChannel,
                 endpointsChannel, accepted, invalidSince, lastRead, lastSent,
                 altServices, altEndpoints, cmdVars>>

Next ==
  \/ ReadError
  \/ \E data \in Files : ReadUnchanged(data)
  \/ \E data \in Files : ParseError(data)
  \/ \E data \in Files : Parsed(data)
  \/ SentServices
  \/ SentEndpoints
  \/ ReceiveServiceUpdate
  \/ ReceiveEndpointsUpdate
  \/ Sleep

\* A read of the file, however it ends.
ReadStep ==
  \/ ReadError
  \/ \E data \in Files : ReadUnchanged(data)
  \/ \E data \in Files : ParseError(data)
  \/ \E data \in Files : Parsed(data)

\* A step of the goroutine that runs Run.
RunStep == ReadStep \/ SentServices \/ SentEndpoints \/ Sleep

Spec == Init /\ [][Next]_vars

\* The goroutine of Run is scheduled again and again, and the consumers
\* receive every update that is sent to them.
FairSpec ==
  /\ Init
  /\ [][Next]_vars
  /\ WF_vars(RunStep)
  /\ WF_vars(ReceiveServiceUpdate)
  /\ WF_vars(ReceiveEndpointsUpdate)

\* ------------------------------------------- kubectl resource helpers
\* The longest list r.Get returns.
MaxObjs == 2

\* The namespaces of an input file and of the command line; "" is none.
Namespaces == {"", "default", "other"}

\* A listed object: what MetadataAccessor.Name returns for it, and whether
\* RESTHelper.Delete fails for its name.
Objects ==
  { [nameErr |-> TRUE,  name |-> "",  deleteErr |-> FALSE],
    [nameErr |-> FALSE, name |-> "",  deleteErr |-> FALSE],
    [nameErr |-> FALSE, name |-> "a", deleteErr |-> FALSE],
    [nameErr |-> FALSE, name |-> "a", deleteErr |-> TRUE],
    [nameErr |-> FALSE, name |-> "b", deleteErr |-> FALSE],
    [nameErr |-> FALSE, name |-> "b", deleteErr |-> TRUE] }

\* What r.Get returns: an error, or an object whose items are listed.
Listings ==
  { [kind |-> "error", items |-> <<>>] } \cup
  { [kind |-> "list", items |-> items] :
      items \in UNION { [1..n -> Objects] : n \in 0..MaxObjs } }

\* CompareNamespaceFromFile gone wrong: the length of namespace is not
\* looked at.
CompareNamespaceFromFileAnyLength(default, ns) ==
  IF default # ns THEN "error" ELSE "nil"

\* CompareNamespaceFromFile, with default what GetKubeNamespace(cmd) returns.
CompareNamespaceFromFile(default, ns) ==
  IF ns # ""
    THEN IF default # ns THEN "error" ELSE "nil"
    ELSE "nil"

\* ResourceInfo.Delete for object o: the error returned and what out holds.
ResourceInfoDelete(o, out) ==
  [err |-> o.deleteErr,
   out |-> IF ~o.deleteErr THEN Append(out, o.name) ELSE out]

\* The helpers before they are called, with their inputs.
CmdInit ==
  /\ ProxyInit
  /\ namespace \in Namespaces
  /\ defaultNamespace \in Namespaces
  /\ compared = "unset"
  /\ listing \in Listings
  /\ deletePc = "get"
  /\ deleteIdx = 0
  /\ attempted = <<>>
  /\ printed = <<>>
  /\ logged = <<>>
  /\ deleteResult = "unset"

\* A call of CompareNamespaceFromFile.
Compare ==
  /\ compared = "unset"
  /\ compared' = CompareNamespaceFromFile(defaultNamespace, namespace)
  /\ UNCHANGED <<proxyVars, namespace, defaultNamespace, listing, deletePc,
                 deleteIdx, attempted, printed, logged, deleteResult>>

\* ResourceSelector.Delete, lines 88-92: the listing, and the return of its
\* error.
DeleteGet ==
  /\ deletePc = "get"
  /\ IF listing.kind = "error"
       THEN /\ deleteResult' = "error"
            /\ deletePc' = "done"
            /\ deleteIdx' = deleteIdx
       ELSE /\ deleteResult' = deleteResult
            /\ deletePc' = "range"
            /\ deleteIdx' = 1
  /\ UNCHANGED <<proxyVars, namespace, defaultNamespace, compared, listing,
                 attempted, printed, logged>>

\* DeleteNext gone wrong: the loop is left when a delete fails.
DeleteNextStopsOnFailure ==
  /\ deletePc = "range"
  /\ deleteIdx <= Len(listing.items)
  /\ LET o == listing.items[deleteIdx]
     IN IF ~o.nameErr /\ o.name # ""
          THEN /\ attempted' = Append(attempted, o.name)
               /\ printed' = ResourceInfoDelete(o, printed).out
               /\ IF ResourceInfoDelete(o, printed).err
                    THEN /\ logged' = Append(logged, o.name)
                         /\ deletePc' = "done"
                         /\ deleteResult' = "error"
                    ELSE UNCHANGED <<logged, deletePc, deleteResult>>
          ELSE UNCHANGED <<attempted, printed, logged, deletePc, deleteResult>>
  /\ deleteIdx' = deleteIdx + 1
  /\ UNCHANGED <<proxyVars, namespace, defaultNamespace, compared, listing>>

\* One pass of the range loop, lines 93-101.
DeleteNext ==
  /\ deletePc = "range"
  /\ deleteIdx <= Len(listing.items)
  /\ LET o == listing.items[deleteIdx]
     IN IF ~o.nameErr /\ o.name # ""
          THEN /\ attempted' = Append(attempted, o.name)
               /\ printed' = ResourceInfoDelete(o, printed).out
               /\ logged' = IF ResourceInfoDelete(o, printed).err
                              THEN Append(logged, o.name)
                              ELSE logged
          ELSE UNCHANGED <<attempted, printed, logged>>
  /\ deleteIdx' = deleteIdx + 1
  /\ UNCHANGED <<proxyVars, namespace, defaultNamespace, compared, listing,
                 deletePc, deleteResult>>

\* The range loop is over: return nil, line 102.
DeleteReturn ==
  /\ deletePc = "range"
  /\ deleteIdx > Len(listing.items)
  /\ deleteResult' = "nil"
  /\ deletePc' = "done"
  /\ UNCHANGED <<proxyVars, namespace, defaultNamespace, compared, listing,
                 deleteIdx, attempted, printed, logged>>

CmdNext ==
  \/ Compare
  \/ DeleteGet
  \/ DeleteNext
  \/ DeleteReturn

CmdSpec == CmdInit /\ [][CmdNext]_vars

\* ----------------------------------------------------------- properties
\* The document of the file the latest successful read returned, and the
\* facts its entries stand for, entry by entry in document order.
CurDoc == lastRead.file.doc
NameOf(e) == IF e.Name.present THEN e.Name.val ELSE ""
SvcFacts(doc) == [i \in 1..Len(doc) |-> [ID |-> NameOf(doc[i]), Port |-> doc[i].Port]]
EpFacts(doc) ==
  [i \in 1..Len(doc) |-> [Name |-> NameOf(doc[i]), Endpoints |-> doc[i].Endpoints]]

\* The families of the updates received in the current cycle, in order.
Families == [i \in 1..Len(delivered) |-> delivered[i].family]
Received(f) == SelectSeq(delivered, LAMBDA e : e.family = f)

\* Nothing was sent in the current cycle, the cycle is over, and the lists
\* kept for the next comparison are the ones the cycle started with.
Quiet ==
  /\ pc = "read"
  /\ serviceChannel = <<>>
  /\ endpointsChannel = <<>>
  /\ delivered = <<>>
  /\ lastServices = prevServices
  /\ lastEndpoints = prevEndpoints

IsPrefix(s, t) == Len(s) <= Len(t) /\ \A i \in 1..Len(s) : s[i] = t[i]

\* C1 - Error isolation: a cycle whose read fails, or whose file is no
\* JSON value, sends nothing on either channel and leaves lastServices and
\* lastEndpoints as they were before the cycle.
ErrorIsolation ==
  (\/ outcome = "ReadError"
   \/ /\ outcome \notin {"none", "ReadError"}
      /\ lastRead.file.kind \in {"empty", "truncated"})
  => Quiet

\* A file that does not parse was read after a snapshot had been accepted.
ErrorIsolationWitness ==
  /\ outcome = "ParseError"
  /\ lastRead.file.kind = "truncated"
  /\ ~lastServices.nil
  /\ Len(lastServices.elems) > 0

\* C2 - Deep-equality gating: in a cycle that parsed a file, a
\* ServiceUpdate is sent iff the new services differ from lastServices as
\* whole ordered lists, and an EndpointsUpdate iff the new endpoints differ
\* from lastEndpoints; never more than one of each.
DeepEqualityGating ==
  /\ serviceChannel # <<>> \/ Received("services") # <<>>
       => prevServices # Slice(SvcFacts(CurDoc))
  /\ endpointsChannel # <<>> \/ Received("endpoints") # <<>>
       => prevEndpoints # Slice(EpFacts(CurDoc))
  /\ pc = "sleep" =>
       /\ Len(Received("services")) = (IF prevServices = Slice(SvcFacts(CurDoc)) THEN 0 ELSE 1)
       /\ Len(Received("endpoints")) = (IF prevEndpoints = Slice(EpFacts(CurDoc)) THEN 0 ELSE 1)

\* A cycle that parsed a file with the same number of entries as the
\* snapshot before it, and sent the services and not the endpoints.
DeepEqualityGatingWitness ==
  /\ pc = "sleep"
  /\ base.some
  /\ Len(base.doc) = 2
  /\ Len(CurDoc) = 2
  /\ Families = <<"services">>

\* C3 - Fixed cadence: Run never reads the file again without having slept
\* since the read before.
FixedCadence ==
  pc = "read" /\ outcome # "none" => waited

\* C4 - Idempotence: a cycle that reads the very bytes the read before it
\* returned sends nothing and leaves lastServices and lastEndpoints alone.
Idempotence ==
  identical => Quiet

\* A file with services was read twice in a row.
IdempotenceWitness ==
  /\ identical
  /\ lastRead.file.kind = "services"
  /\ Len(CurDoc) > 0
  /\ ~lastServices.nil

\* C5 - A file with a service entry that has no Name (or an empty one) is
\* rejected: the cycle that reads it sends nothing and leaves lastServices
\* and lastEndpoints alone.
MissingNameRejected ==
  (/\ outcome \notin {"none", "ReadError"}
   /\ \E i \in 1..Len(CurDoc) : NameOf(CurDoc[i]) = "")
  => outcome # "Parsed" /\ Quiet

\* C6 - Initial load: the first cycle that parses a file sends exactly one
\* ServiceUpdate and then exactly one EndpointsUpdate, each with one fact
\* per entry of the file, also when the file has no entries.
InitialLoad ==
  pc = "sleep" /\ ~base.some =>
    delivered = << [family |-> "services", Op |-> "SET",
                    payload |-> Slice(SvcFacts(CurDoc))],
                   [family |-> "endpoints", Op |-> "SET",
                    payload |-> Slice(EpFacts(CurDoc))] >>

\* The first file that parsed had an empty "Services" array.
InitialLoadWitness ==
  /\ pc = "sleep"
  /\ ~base.some
  /\ lastRead.file.kind = "services"
  /\ CurDoc = <<>>
  /\ Len(delivered) = 2

\* C7 - Full-replace payload: every update sent has Op SET and carries the
\* whole list of its family as parsed in the same cycle, one fact per entry
\* of the file in the order of the file.
FullReplacePayload ==
  /\ \A i \in 1..Len(serviceChannel) :
       serviceChannel[i] = [Op |-> "SET", Services |-> Slice(SvcFacts(CurDoc))]
  /\ \A i \in 1..Len(endpointsChannel) :
       endpointsChannel[i] = [Op |-> "SET", Endpoints |-> Slice(EpFacts(CurDoc))]
  /\ \A i \in 1..Len(delivered) :
       /\ delivered[i].Op = "SET"
       /\ delivered[i].payload =
            IF delivered[i].family = "services"
              THEN Slice(SvcFacts(CurDoc)) ELSE Slice(EpFacts(CurDoc))

\* A ServiceUpdate with two facts was received after one entry of an
\* accepted two-entry file changed its port.
FullReplacePayloadWitness ==
  /\ base.some
  /\ Len(base.doc) = 2
  /\ Len(CurDoc) = 2
  /\ base.doc[1] = CurDoc[1]
  /\ Received("services") # <<>>
  /\ Len(Received("services")[1].payload.elems) = 2

\* Two files that differ in the address lists of their entries only, and
\* two that differ in the ports only.
OnlyAddressesDiffer(d, e) ==
  /\ Len(d) = Len(e)
  /\ \A i \in 1..Len(d) : NameOf(d[i]) = NameOf(e[i]) /\ d[i].Port = e[i].Port
  /\ \E i \in 1..Len(d) : d[i].Endpoints # e[i].Endpoints
OnlyPortsDiffer(d, e) ==
  /\ Len(d) = Len(e)
  /\ \A i \in 1..Len(d) : NameOf(d[i]) = NameOf(e[i]) /\ d[i].Endpoints = e[i].Endpoints
  /\ \E i \in 1..Len(d) : d[i].Port # e[i].Port

\* C8 - Family independence: a cycle whose file differs from the accepted
\* one in address lists only sends one EndpointsUpdate, no ServiceUpdate,
\* and keeps lastServices; one that differs in ports only sends one
\* ServiceUpdate, no EndpointsUpdate, and keeps lastEndpoints.
FamilyIndependence ==
  outcome = "Parsed" /\ base.some =>
    /\ OnlyAddressesDiffer(base.doc, CurDoc) =>
         /\ serviceChannel = <<>>
         /\ Received("services") = <<>>
         /\ lastServices = prevServices
         /\ pc = "sleep" => Families = <<"endpoints">>
    /\ OnlyPortsDiffer(base.doc, CurDoc) =>
         /\ endpointsChannel = <<>>
         /\ Received("endpoints") = <<>>
         /\ lastEndpoints = prevEndpoints
         /\ pc = "sleep" => Families = <<"services">>

\* A cycle ended whose file differs from the accepted one in ports only.
FamilyIndependenceWitness ==
  /\ pc = "sleep"
  /\ base.some
  /\ OnlyPortsDiffer(base.doc, CurDoc)
  /\ Len(delivered) = 1

\* C9 - No overlap between cycles: while an update is in a channel, not
\* yet received, the only step taken is the consumer receiving that very
\* update; Run reads nothing, does not move and sends no other update until
\* then, and at most one update is in the channels at any time.
NoOverlap ==
  [][ serviceChannel # <<>> \/ endpointsChannel # <<>> =>
        /\ Len(serviceChannel) + Len(endpointsChannel) = 1
        /\ lastRead' = lastRead
        /\ outcome' = outcome
        /\ lastData' = lastData
        /\ pc' = pc
        /\ delivered' =
             Append(delivered,
                    IF serviceChannel # <<>>
                      THEN [family |-> "services", Op |-> serviceChannel[1].Op,
                            payload |-> serviceChannel[1].Services]
                      ELSE [family |-> "endpoints", Op |-> endpointsChannel[1].Op,
                            payload |-> endpointsChannel[1].Endpoints])
        /\ serviceChannel' = <<>>
        /\ endpointsChannel' = <<>> ]_vars

\* Run is blocked in its second send of a cycle, the first one received.
NoOverlapWitness ==
  /\ pc = "sendEndpoints"
  /\ endpointsChannel # <<>>
  /\ Families = <<"services">>

\* The families in which the file of the current cycle differs from the
\* file accepted before the cycle, services first.
ChangedFamilies ==
  (IF SvcFacts(base.doc) # SvcFacts(CurDoc) THEN <<"services">> ELSE <<>>)
    \o (IF EpFacts(base.doc) # EpFacts(CurDoc) THEN <<"endpoints">> ELSE <<>>)

\* C10 - Malformed then recovered: the first file that parses after files
\* that did not is compared with the snapshot accepted before them: the
\* cycle sends one update for each family in which the two differ, and
\* nothing if they differ in none.
MalformedThenRecovered ==
  recovering /\ base.some =>
    /\ IsPrefix(Families, ChangedFamilies)
    /\ pc = "sleep" => Families = ChangedFamilies
    /\ ChangedFamilies = <<>> => serviceChannel = <<>> /\ endpointsChannel = <<>>

\* After a file that did not parse, the file accepted before it was put
\* back: the cycle ended without an update.
MalformedThenRecoveredWitness ==
  /\ recovering
  /\ pc = "sleep"
  /\ base.some
  /\ Len(CurDoc) > 0
  /\ base.doc = CurDoc
  /\ delivered = <<>>

\* lastServices and lastEndpoints are the two lists of the document d.
BaselineOf(d) ==
  /\ lastServices = Slice(SvcFacts(d))
  /\ lastEndpoints = Slice(EpFacts(d))

\* The facts of lastServices and lastEndpoints are those of the document d.
SameFactsAs(d) ==
  /\ lastServices.elems = SvcFacts(d)
  /\ lastEndpoints.elems = EpFacts(d)

\* C11 as claimed - Atomic replacement: in every state lastServices and
\* lastEndpoints hold the facts of one and the same parsed document, or
\* both are still empty.
AtomicReplacement ==
  \/ lastServices.elems = <<>> /\ lastEndpoints.elems = <<>>
  \/ accepted.some /\ SameFactsAs(accepted.doc)
  \/ base.some /\ SameFactsAs(base.doc)

\* C11 as amended - Between cycles, that is whenever Run is about to read
\* or is asleep, lastServices and lastEndpoints are the lists of the
\* latest document that parsed, or both are nil when none has parsed yet.
AtomicReplacementBetweenCycles ==
  pc \in {"read", "sleep"} =>
    IF accepted.some
      THEN BaselineOf(accepted.doc)
      ELSE lastServices.nil /\ lastEndpoints.nil

\* A cycle that replaced both lists of an accepted document has ended.
AtomicReplacementWitness ==
  /\ pc = "sleep"
  /\ base.some
  /\ Families = <<"services", "endpoints">>
  /\ Len(CurDoc) > 0

\* C12 - No duplicate notifications: an update sent on a channel never
\* carries a payload deep-equal to the one of the update received before it
\* on that channel, and a cycle sends at most one update per family.
NoDuplicateNotifications ==
  /\ \A i \in 1..Len(serviceChannel) : serviceChannel[i].Services # lastSent.services
  /\ \A i \in 1..Len(endpointsChannel) : endpointsChannel[i].Endpoints # lastSent.endpoints
  /\ Len(Received("services")) + Len(serviceChannel) <= 1
  /\ Len(Received("endpoints")) + Len(endpointsChannel) <= 1

\* After a file that did not parse, an EndpointsUpdate is sent whose
\* payload has as many facts as the one received before it.
NoDuplicateNotificationsWitness ==
  /\ recovering
  /\ endpointsChannel # <<>>
  /\ ~lastSent.endpoints.nil
  /\ Len(lastSent.endpoints.elems) = Len(endpointsChannel[1].Endpoints.elems)
  /\ Len(lastSent.endpoints.elems) > 0

\* The names of a list of facts are all different.
UniqueIDs(list) ==
  \A i, j \in 1..Len(list.elems) : list.elems[i].ID = list.elems[j].ID => i = j
UniqueNames(list) ==
  \A i, j \in 1..Len(list.elems) : list.elems[i].Name = list.elems[j].Name => i = j

\* C13 - Name uniqueness: no two facts of a family have the same name, in
\* the lists kept of an accepted snapshot and in every update sent.
NameUniqueness ==
  /\ UniqueIDs(lastServices)
  /\ UniqueNames(lastEndpoints)
  /\ \A i \in 1..Len(serviceChannel) : UniqueIDs(serviceChannel[i].Services)
  /\ \A i \in 1..Len(endpointsChannel) : UniqueNames(endpointsChannel[i].Endpoints)

\* C14 - No terminal state: with Run scheduled and consumers that receive,
\* the file is read again and again, whatever the reads before returned,
\* a ReadError and a ParseError included.
ReadsForever == []<><<ReadStep>>_vars

\* A read failed after a file that did not parse, and Run is about to read.
ReadsForeverWitness ==
  /\ pc = "read"
  /\ outcome = "ReadError"
  /\ invalidSince
  /\ accepted.some

\* The updates of the current cycle that were sent, received or not yet.
SentInCycle ==
  delivered
    \o [i \in 1..Len(serviceChannel) |->
          [family |-> "services", Op |-> serviceChannel[i].Op,
           payload |-> serviceChannel[i].Services]]
    \o [i \in 1..Len(endpointsChannel) |->
          [family |-> "endpoints", Op |-> endpointsChannel[i].Op,
           payload |-> endpointsChannel[i].Endpoints]]

\* C15 - The comparison of the bytes is a pure optimization: fed the same
\* reads, Run sends in every cycle the updates that the loop without the
\* comparison sends, in the same order, and both keep the same lists for
\* the next cycle.
ShortCircuitIsOptimization ==
  /\ IsPrefix(SentInCycle, altDue)
  /\ pc \in {"read", "sleep"} =>
       /\ delivered = altDue
       /\ lastServices = altServices
       /\ lastEndpoints = altEndpoints

\* Run skipped a file of two entries that the loop without the comparison
\* parsed again.
ShortCircuitIsOptimizationWitness ==
  /\ outcome = "Unchanged"
  /\ lastRead.file.kind = "services"
  /\ Len(CurDoc) = 2
  /\ altDue = <<>>
  /\ altServices = Slice(SvcFacts(CurDoc))

\* C17 - Dispatch order within a cycle: the EndpointsUpdate of a cycle is
\* put on its channel only when the ServiceUpdate of the cycle, if one was
\* due, has been received; the two are never on the channels together, and
\* no EndpointsUpdate is received before the ServiceUpdate of its cycle.
DispatchOrder ==
  /\ endpointsChannel # <<>> => serviceChannel = <<>>
  /\ (/\ endpointsChannel # <<>> \/ Received("endpoints") # <<>>
      /\ prevServices # Slice(SvcFacts(CurDoc)))
     => Len(delivered) >= 1 /\ delivered[1].family = "services"

\* The first file, of two entries, was sent: services, then endpoints.
DispatchOrderWitness ==
  /\ pc = "sleep"
  /\ ~base.some
  /\ Len(CurDoc) = 2
  /\ Families = <<"services", "endpoints">>

\* The i-th service and the i-th endpoints entry carry the same name.
Correlated(services, endpoints) ==
  /\ Len(services.elems) = Len(endpoints.elems)
  /\ \A i \in 1..Len(services.elems) : services.elems[i].ID = endpoints.elems[i].Name

\* C18 - Service/endpoint correlation: the two lists built from one parsed
\* file have the same length and the same name at every index, and so do
\* the updates sent and the lists kept of an accepted snapshot.
Correlation ==
  /\ Correlated(newServices, newEndpoints)
  /\ ~newServices.nil => Len(newServices.elems) = Len(accepted.doc)
  /\ \A i \in 1..Len(serviceChannel) :
       Correlated(serviceChannel[i].Services, newEndpoints)
  /\ \A i \in 1..Len(endpointsChannel) :
       Correlated(newServices, endpointsChannel[i].Endpoints)
  /\ pc \in {"read", "sleep"} => Correlated(lastServices, lastEndpoints)

\* Two lists of two facts with different names were built from a file.
CorrelationWitness ==
  /\ ~newServices.nil
  /\ Len(newServices.elems) = 2
  /\ newServices.elems[1].ID # newServices.elems[2].ID
  /\ newEndpoints.elems[1].Endpoints # newEndpoints.elems[2].Endpoints

\* C16 - CompareNamespaceFromFile returns an error iff the namespace of the
\* input file is not empty and differs from the namespace of the command
\* line; it returns nil when the file namespace is empty or the same.
NamespaceCheck ==
  compared # "unset" =>
    /\ compared \in {"nil", "error"}
    /\ compared = "error" <=> (namespace # "" /\ namespace # defaultNamespace)

\* A file without a namespace passed although the command line names one.
NamespaceCheckWitness ==
  /\ compared = "nil"
  /\ namespace = ""
  /\ defaultNamespace # ""

\* The names of the objects of items that have a name, in order.
RECURSIVE NamedIn(_)
NamedIn(items) ==
  IF items = <<>> THEN <<>>
  ELSE (IF ~Head(items).nameErr /\ Head(items).name # ""
          THEN <<Head(items).name>> ELSE <<>>) \o NamedIn(Tail(items))

\* The names of the objects of items that have a name and whose delete
\* succeeds (fails = FALSE) or fails (fails = TRUE), in order.
RECURSIVE NamedWith(_, _)
NamedWith(items, fails) ==
  IF items = <<>> THEN <<>>
  ELSE (IF ~Head(items).nameErr /\ Head(items).name # "" /\ Head(items).deleteErr = fails
          THEN <<Head(items).name>> ELSE <<>>) \o NamedWith(Tail(items), fails)

\* C19 - ResourceSelector.Delete is best-effort: when the listing succeeds
\* a delete is attempted for every listed object with a non-empty name,
\* also after a delete has failed, and nil is returned; an error is
\* returned only when the listing fails, and then no delete is attempted.
BestEffortDelete ==
  /\ listing.kind = "error" => attempted = <<>>
  /\ deletePc = "range" =>
       attempted = NamedIn(SubSeq(listing.items, 1, deleteIdx - 1))
  /\ deletePc = "done" =>
       /\ deleteResult \in {"nil", "error"}
       /\ deleteResult = "error" <=> listing.kind = "error"
       /\ attempted = NamedIn(listing.items)
       /\ printed = NamedWith(listing.items, FALSE)
       /\ logged = NamedWith(listing.items, TRUE)

\* The first delete failed, the second was made and succeeded, nil returned.
BestEffortDeleteWitness ==
  /\ deletePc = "done"
  /\ deleteResult = "nil"
  /\ Len(attempted) = 2
  /\ logged = <<attempted[1]>>
  /\ printed = <<attempted[2]>>
====
